---------------------------- MODULE Spec2Model ----------------------------
(***************************************************************************)
(* Model of package cmdapp (js-arias/cmdapp), interface-based version:     *)
(* the command registry (Add), the dispatcher (Run, usage), the help       *)
(* command (help.Run, printUsage) and the documentation renderer           *)
(* (documentation, capitalize).                                            *)
(*                                                                         *)
(* Strings are sequences of byte values, so that strings.ToLower,          *)
(* strings.TrimSpace, capitalize and sort.Strings are computed and not     *)
(* assumed.  A line written by fmt.Fprintf is a record that names the      *)
(* format and carries the formatted operands.                              *)
(***************************************************************************)
EXTENDS Integers, Sequences, FiniteSets, TLC

\* ------------------------------------------------------------------ bounds
\* Longest argument list handed to Run.
MaxArgs == 3
\* Most calls of Add made by the host program before it calls Run.
MaxAdds == 3
\* Most runs of the program, one after the other.
MaxRuns == 2

\* ----------------------------------------------------------------- strings
strHelp == <<104, 101, 108, 112>>                           \* "help"
strDocumentation ==
    <<100, 111, 99, 117, 109, 101, 110, 116, 97, 116, 105, 111, 110>>
                                                            \* "documentation"
strBuild == <<98, 117, 105, 108, 100>>                      \* "build"
strBuildUpper == <<66, 117, 105, 108, 100>>                 \* "Build"
strWorkflow == <<119, 111, 114, 107, 102, 108, 111, 119>>   \* "workflow"
strFlagV == <<45, 118>>                                     \* "-v"
strEmpty == <<>>                                            \* ""

\* unicode.ToLower on one byte of ASCII text.
ToLowerByte(b) == IF b \in 65..90 THEN b + 32 ELSE b

\* unicode.ToTitle on one byte of ASCII text.
ToTitle(b) == IF b \in 97..122 THEN b - 32 ELSE b

\* strings.ToLower
ToLower(s) == [i \in 1..Len(s) |-> ToLowerByte(s[i])]

\* unicode.IsSpace on ASCII: \t \n \v \f \r and the space.
IsSpace(b) == b \in {9, 10, 11, 12, 13, 32}

RECURSIVE TrimLeft(_)
TrimLeft(s) ==
    IF s # <<>> /\ IsSpace(Head(s)) THEN TrimLeft(Tail(s)) ELSE s

RECURSIVE TrimRight(_)
TrimRight(s) ==
    IF s # <<>> /\ IsSpace(s[Len(s)])
    THEN TrimRight(SubSeq(s, 1, Len(s) - 1))
    ELSE s

\* strings.TrimSpace
TrimSpace(s) == TrimRight(TrimLeft(s))

\* capitalize sets the first rune of a string as upper case.
capitalize(s) ==
    IF s = <<>> THEN s ELSE <<ToTitle(Head(s))>> \o Tail(s)

\* The order of Go strings (byte-wise lexicographic), as sort.Strings uses.
RECURSIVE StrLess(_, _)
StrLess(a, b) ==
    IF b = <<>> THEN FALSE
    ELSE IF a = <<>> THEN TRUE
    ELSE IF Head(a) # Head(b) THEN Head(a) < Head(b)
    ELSE StrLess(Tail(a), Tail(b))

RECURSIVE SortInsert(_, _)
SortInsert(x, sorted) ==
    IF sorted = <<>> THEN <<x>>
    ELSE IF StrLess(x, Head(sorted)) THEN <<x>> \o sorted
    ELSE <<Head(sorted)>> \o SortInsert(x, Tail(sorted))

\* sort.Strings
RECURSIVE SortStrings(_)
SortStrings(xs) ==
    IF xs = <<>> THEN <<>> ELSE SortInsert(Head(xs), SortStrings(Tail(xs)))

\* The orders in which a range statement may visit the keys of a map.
RangeOrders(keys) ==
    {o \in [1..Cardinality(keys) -> keys] :
        \A i, j \in 1..Cardinality(keys) : i # j => o[i] # o[j]}

\* ------------------------------------------------- application and commands
\* Name stores the application name (os.Args[0]); here "app".
Name == <<97, 112, 112>>

\* Short is a short description of the application; here "hosts".
Short == <<104, 111, 115, 116, 115>>

\* helpCmdLong, abridged to "\nCommand help\n".
helpCmdLong == <<10, 67, 111, 109, 109, 97, 110, 100, 32, 104, 101, 108, 112, 10>>

\* The nil Command: what indexing the map with an absent key yields.
nil ==
    [kind |-> "nil", name |-> <<>>, args |-> <<>>, short |-> <<>>,
     long |-> <<>>, runnable |-> FALSE, flags |-> {}]

\* help is the help command (type help struct{} and its methods);
\* its Short is "displays " + Name (abridged).
help ==
    [kind |-> "help", name |-> strHelp,
     args |-> <<91, 60, 99, 111, 109, 109, 97, 110, 100, 62, 93>>,
     short |-> <<100, 105, 115, 112, 108, 97, 121, 115, 32>> \o Name,
     long |-> helpCmdLong, runnable |-> TRUE, flags |-> {}]

\* Commands a host program may define: implementations of interface Command.
UserCommand(name, args, short, long, runnable, flags) ==
    [kind |-> "user", name |-> name, args |-> args, short |-> short,
     long |-> long, runnable |-> runnable, flags |-> flags]

cmdBuild ==
    UserCommand(strBuild, <<91, 45, 118, 93>>,
                <<99, 111, 109, 112, 105, 108, 101, 115>>,
                <<10, 32, 99, 32, 100, 32, 10>>, TRUE, {<<118>>})
cmdBuildUpper ==
    UserCommand(strBuildUpper, <<>>, <<66, 117, 105, 108, 100, 115>>,
                <<66, 10>>, TRUE, {})
cmdWorkflow ==
    UserCommand(strWorkflow, <<>>, <<102, 108, 111, 119>>,
                <<10, 10, 119, 102>>, FALSE, {})
cmdDocumentation ==
    UserCommand(strDocumentation, <<>>, <<100, 111, 99, 115>>,
                <<100>>, TRUE, {})
cmdHelp ==
    UserCommand(strHelp, <<>>, <<117, 115, 101, 114>>, <<117>>, TRUE, {})
cmdEmpty ==
    UserCommand(strEmpty, <<>>, <<>>, <<32>>, TRUE, {})

UserCommands ==
    {cmdBuild, cmdBuildUpper, cmdWorkflow, cmdDocumentation, cmdHelp, cmdEmpty}

\* The words the command line is made of.
Words ==
    {strHelp, strDocumentation, strBuild, strBuildUpper, strWorkflow,
     strFlagV}

\* The argument lists flag.Args() may hand to Run.
ArgLists == UNION {[1..n -> Words] : n \in 0..MaxArgs}

\* ------------------------------------------------------------------- state
VARIABLES
    commands,   \* the registry: map from key to Command
    mutex,      \* TRUE while the registry mutex is locked
    pc,         \* where the program is
    adds,       \* calls of Add made by the host program
    args,       \* Run: args := flag.Args()
    c,          \* Add: the parameter c; Run: the command looked up
    ok,         \* Run: whether the key was in the map
    fs,         \* Run: the flag set of this invocation
    err,        \* the error returned by the command's Run: <<>> is nil
    topic,      \* help.Run: c, ok := commands[arg]
    w,          \* printUsage: the writer
    ret,        \* printUsage: where it returns to
    panicking,  \* a run-time panic is unwinding the stack
    stdout,     \* lines written to os.Stdout
    stderr,     \* lines written to os.Stderr
    docgo,      \* the file doc.go
    calls,      \* the call of Run and the calls it made on the flag set and
                \* on the command, in order
    exit,       \* <<>> while the process runs, <<status>> once it ended
    prev        \* the earlier runs of the program: how many, and what the
                \* last one ran on and left

vars ==
    <<commands, mutex, pc, adds, args, c, ok, fs, err, topic, w, ret,
      panicking, stdout, stderr, docgo, calls, exit, prev>>

\* One line of output: the Fprintf statement that wrote it and its operands.
Line(k, a, b, e) == [k |-> k, a |-> a, b |-> b, e |-> e]

\* An error value: its format and its operand.
Error(k, a) == [k |-> k, a |-> a]

\* A call recorded in calls.
Call(fn, cmd, a) == [fn |-> fn, cmd |-> cmd, a |-> a, held |-> mutex]

\* doc.go before the program ran: absent, or left by an earlier run.
NoFile == [exists |-> FALSE, content |-> <<>>]
StaleFile == [exists |-> TRUE, content |-> <<Line("stale", <<>>, <<>>, "")>>]

\* flag.NewFlagSet(name, flag.ExitOnError)
NewFlagSet(name) ==
    [made |-> TRUE, name |-> name, flags |-> {}, parsed |-> FALSE,
     rest |-> <<>>]
NoFlagSet ==
    [made |-> FALSE, name |-> <<>>, flags |-> {}, parsed |-> FALSE,
     rest |-> <<>>]

\* The exit status of a Go program that ends by an unrecovered panic.
PanicExit == <<2>>

\* var goHead, trimmed and followed by a newline.
goHead == Line("goHead", <<>>, <<>>, "")
\* var goFoot, trimmed and preceded by a newline.
goFoot == Line("goFoot", <<>>, <<>>, "")

\* commands[key] of Go: the zero value (nil) and false when key is absent.
Index(key) ==
    IF key \in DOMAIN commands
    THEN [c |-> commands[key], ok |-> TRUE]
    ELSE [c |-> nil, ok |-> FALSE]

\* ---------------------------------------------------------------- registry
\* Add: name := strings.ToLower(c.Name())
AddKey(cmd) == ToLower(cmd.name)

\* Add, had it not looked for a repeated name.
DupNever(name) == FALSE

\* Add: _, dup := commands[name]
Dup(name) == Index(name).ok

Init ==
    /\ commands = (AddKey(help) :> help)      \* func init() { Add(help{}) }
    /\ mutex = FALSE
    /\ pc = "main"
    /\ adds = 0
    /\ args = <<>>
    /\ c = nil
    /\ ok = FALSE
    /\ fs = NoFlagSet
    /\ err = <<>>
    /\ topic = [c |-> nil, ok |-> FALSE]
    /\ w = "stderr"
    /\ ret = "main"
    /\ panicking = FALSE
    /\ stdout = <<>>
    /\ stderr = <<>>
    /\ docgo \in {NoFile, StaleFile}
    /\ calls = <<>>
    /\ exit = <<>>
    /\ prev = [runs |-> 0, doc |-> FALSE, commands |-> commands,
               docgo |-> docgo]

\* Add, up to mutex.Lock() and defer mutex.Unlock(), for any command of the
\* host program.
Add ==
    /\ pc = "main"
    /\ adds < MaxAdds
    /\ adds' = adds + 1
    /\ \E cmd \in UserCommands : c' = cmd
    /\ mutex' = TRUE
    /\ pc' = "Add"
    /\ UNCHANGED <<prev, commands, args, ok, fs, err, topic, w, ret, panicking,
                   stdout, stderr, docgo, calls, exit>>

\* Add, from the test for a repeated name to the deferred unlock.
AddInsert ==
    /\ pc = "Add"
    /\ LET name == AddKey(c) IN
       IF Dup(name)
       THEN /\ stderr' = stderr \o
                    <<Line("panic: cmdapp: Repeated command name: %s %s",
                           name, c.short, "")>>
            /\ exit' = PanicExit
            /\ pc' = "exit"
            /\ UNCHANGED commands
       ELSE /\ commands' = (name :> c) @@ commands
            /\ pc' = "main"
            /\ UNCHANGED <<stderr, exit>>
    /\ mutex' = FALSE
    /\ UNCHANGED <<prev, adds, args, c, ok, fs, err, topic, w, ret,
                   panicking, stdout, docgo, calls>>

\* ------------------------------------------------------------- printUsage
\* The commands section or the topics section of printUsage: one line for
\* each name of cmds whose command has Runnable() = runnable.  commands[nm]
\* is nil when nm is no key, and calling a method of nil panics.
RECURSIVE listing(_, _)
listing(cmds, runnable) ==
    IF cmds = <<>> THEN [out |-> <<>>, panic |-> FALSE]
    ELSE LET cmd == Index(Head(cmds)).c IN
         IF cmd = nil THEN [out |-> <<>>, panic |-> TRUE]
         ELSE LET r == listing(Tail(cmds), runnable) IN
              [out |-> (IF cmd.runnable = runnable
                        THEN <<Line("printUsage.entry", cmd.name, cmd.short, "")>>
                        ELSE <<>>) \o r.out,
               panic |-> r.panic]

\* printUsage from var cmds []string on, with the range statement visiting
\* the keys in the given order: the lines written and whether it panicked.
printUsageLoops(order) ==
    LET cmds == SortStrings([i \in DOMAIN order |-> commands[order[i]].name])
        topics == \E i \in DOMAIN order : ~commands[order[i]].runnable
        first == listing(cmds, TRUE)
        second == listing(cmds, FALSE)
    IN  IF first.panic THEN first
        ELSE IF ~topics
        THEN [out |-> first.out \o <<Line("printUsage.commandHint", Name, <<>>, "")>>,
              panic |-> FALSE]
        ELSE [out |-> first.out
                        \o <<Line("printUsage.commandHint", Name, <<>>, ""),
                             Line("printUsage.topics", <<>>, <<>>, "")>>
                        \o second.out
                        \o <<Line("printUsage.topicHint", Name, <<>>, "")>>,
              panic |-> second.panic]

\* Write lines to the writer named to.
Emit(to, lines) ==
    /\ stdout' = IF to = "stdout" THEN stdout \o lines ELSE stdout
    /\ stderr' = IF to = "stderr" THEN stderr \o lines ELSE stderr
    /\ docgo' = IF to = "doc.go"
                THEN [docgo EXCEPT !.content = @ \o lines]
                ELSE docgo

\* printUsage, up to mutex.Lock() and defer mutex.Unlock().
printUsage ==
    /\ pc = "printUsage"
    /\ Emit(w, <<Line("printUsage.short", Short, <<>>, ""),
                 Line("printUsage.usage", Name, <<>>, ""),
                 Line("printUsage.commands", <<>>, <<>>, "")>>)
    /\ mutex' = TRUE
    /\ pc' = "printUsage_loops"
    /\ UNCHANGED <<prev, commands, adds, args, c, ok, fs, err, topic, w, ret,
                   panicking, calls, exit>>

\* printUsage, the loops over the commands.
printUsageBody ==
    /\ pc = "printUsage_loops"
    /\ \E order \in RangeOrders(DOMAIN commands) :
          LET r == printUsageLoops(order) IN
          /\ Emit(w, r.out)
          /\ panicking' = r.panic
    /\ pc' = "printUsage_return"
    /\ UNCHANGED <<prev, commands, mutex, adds, args, c, ok, fs, err, topic, w,
                   ret, calls, exit>>

\* printUsage returns, or the panic leaves it: the deferred mutex.Unlock().
printUsageReturn ==
    /\ pc = "printUsage_return"
    /\ mutex' = FALSE
    /\ IF panicking
       THEN /\ stderr' = stderr \o <<Line("panic: runtime error", <<>>, <<>>, "")>>
            /\ exit' = PanicExit
            /\ pc' = "exit"
       ELSE /\ pc' = ret
            /\ UNCHANGED <<stderr, exit>>
    /\ UNCHANGED <<prev, commands, adds, args, c, ok, fs, err, topic, w, ret,
                   panicking, stdout, docgo, calls>>

\* ---------------------------------------------------------- documentation
\* documentation prints command documentation.
documentation(cmd) ==
    <<Line("documentation.short", capitalize(cmd.short), <<>>, "")>>
    \o (IF cmd.runnable
        THEN <<Line("documentation.usage", cmd.name, cmd.args, "")>>
        ELSE <<>>)
    \o <<Line("documentation.long", TrimSpace(cmd.long), <<>>, "")>>

\* help.Run, the loop "for _, c := range cmds { documentation(f,
\* commands[c]) }": calling a method of the nil commands[c] panics.
RECURSIVE documentationAll(_)
documentationAll(cmds) ==
    IF cmds = <<>> THEN [out |-> <<>>, panic |-> FALSE]
    ELSE LET cmd == Index(Head(cmds)).c IN
         IF cmd = nil THEN [out |-> <<>>, panic |-> TRUE]
         ELSE LET r == documentationAll(Tail(cmds)) IN
              [out |-> documentation(cmd) \o r.out, panic |-> r.panic]

\* --------------------------------------------------------------------- Run
\* flag.FlagSet.Parse over boolean flags: flags are read up to the first
\* argument that is no flag or up to "--"; a flag that was not registered
\* is an error.  rest is what fs.Args() returns afterwards.
RECURSIVE FlagParse(_, _)
FlagParse(flags, list) ==
    IF list = <<>> THEN [ok |-> TRUE, rest |-> <<>>]
    ELSE LET s == Head(list) IN
         IF Len(s) < 2 \/ s[1] # 45 THEN [ok |-> TRUE, rest |-> list]
         ELSE IF s = <<45, 45>> THEN [ok |-> TRUE, rest |-> Tail(list)]
         ELSE LET name == SubSeq(s, IF s[2] = 45 THEN 3 ELSE 2, Len(s)) IN
              IF name \in flags
              THEN FlagParse(flags, Tail(list))
              ELSE [ok |-> FALSE, rest |-> Tail(list)]

\* Run: the key of commands[args[0]].
RunKey(a) == a[1]

\* Run, had it run every command that is found.
RunRejectsNotFound(found, cmd) == ~found

\* Run, had it run no command at all.
RunRejectsAlways(found, cmd) == TRUE

\* Run: if !ok || !c.Runnable()
RunRejects(found, cmd) == ~found \/ ~cmd.runnable

\* Run, had it handed every argument to the command.
RunArgsAll(a, flagset) == Tail(a)

\* Run: the arguments of c.Run(fs.Args()).
RunArgs(a, flagset) == flagset.rest

\* usage: os.Exit(1) after printUsage(os.Stderr).
UsageExit == <<1>>

\* Run: os.Exit(1) after the "unknown subcommand" diagnostic.
UnknownExit == <<1>>

\* Run: os.Exit(1) after the error of the command.
ErrorExit == <<1>>

\* main returns after Run returned.
SuccessExit == <<0>>

\* Run, from args := flag.Args() to the test of len(args), for any
\* argument list.
Run ==
    /\ pc = "main"
    /\ \E a \in ArgLists :
          /\ args' = a
          /\ calls' = Append(calls, Call("cmdapp.Run", nil, a))
          /\ pc' = IF Len(a) < 1 THEN "usage" ELSE "Run_lock"
    /\ UNCHANGED <<prev, commands, mutex, adds, c, ok, fs, err, topic, w, ret,
                   panicking, stdout, stderr, docgo, exit>>

\* usage: printUsage(os.Stderr)
usage ==
    /\ pc = "usage"
    /\ w' = "stderr"
    /\ ret' = "usage_exit"
    /\ pc' = "printUsage"
    /\ UNCHANGED <<prev, commands, mutex, adds, args, c, ok, fs, err, topic,
                   panicking, stdout, stderr, docgo, calls, exit>>

\* usage: os.Exit(1)
usageExit ==
    /\ pc = "usage_exit"
    /\ exit' = UsageExit
    /\ pc' = "exit"
    /\ UNCHANGED <<prev, commands, mutex, adds, args, c, ok, fs, err, topic, w,
                   ret, panicking, stdout, stderr, docgo, calls>>

\* Run: mutex.Lock()
RunLock ==
    /\ pc = "Run_lock"
    /\ mutex' = TRUE
    /\ pc' = "Run_lookup"
    /\ UNCHANGED <<prev, commands, adds, args, c, ok, fs, err, topic, w, ret,
                   panicking, stdout, stderr, docgo, calls, exit>>

\* Run: c, ok := commands[args[0]]; mutex.Unlock()
RunLookup ==
    /\ pc = "Run_lookup"
    /\ c' = Index(RunKey(args)).c
    /\ ok' = Index(RunKey(args)).ok
    /\ mutex' = FALSE
    /\ pc' = "Run_check"
    /\ UNCHANGED <<prev, commands, adds, args, fs, err, topic, w, ret, panicking,
                   stdout, stderr, docgo, calls, exit>>

\* Run: the "unknown subcommand" exit, or fs := flag.NewFlagSet(...) and
\* fs.Usage = func() { Usage(c) }.
RunCheck ==
    /\ pc = "Run_check"
    /\ IF RunRejects(ok, c)
       THEN /\ stderr' = stderr \o <<Line("Run.unknown", args[1], <<>>, "")>>
            /\ exit' = UnknownExit
            /\ pc' = "exit"
            /\ UNCHANGED <<fs, calls>>
       ELSE /\ fs' = NewFlagSet(c.name)
            /\ calls' = Append(calls, Call("NewFlagSet", c, <<>>))
            /\ pc' = "Run_register"
            /\ UNCHANGED <<stderr, exit>>
    /\ UNCHANGED <<prev, commands, mutex, adds, args, c, ok, err, topic, w, ret,
                   panicking, stdout, docgo>>

\* Run: c.Register(fs)
RunRegister ==
    /\ pc = "Run_register"
    /\ fs' = [fs EXCEPT !.flags = @ \cup c.flags]
    /\ calls' = Append(calls, Call("Register", c, <<>>))
    /\ pc' = "Run_parse"
    /\ UNCHANGED <<prev, commands, mutex, adds, args, c, ok, err, topic, w, ret,
                   panicking, stdout, stderr, docgo, exit>>

\* Usage prints the usage message and exits the program; the flag package
\* calls it, as fs.Usage, after it reported the error of Parse.
Usage(cmd) ==
    <<Line("flag.error", <<>>, <<>>, ""),
      Line("Usage.usage", cmd.name, cmd.args, ""),
      Line("Usage.hint", cmd.name, <<>>, "")>>

\* Run: fs.Parse(args[1:])
RunParse ==
    /\ pc = "Run_parse"
    /\ LET r == FlagParse(fs.flags, Tail(args)) IN
       /\ fs' = [fs EXCEPT !.parsed = TRUE, !.rest = r.rest]
       /\ calls' = Append(calls, Call("Parse", c, Tail(args)))
       /\ IF r.ok
          THEN /\ pc' = "Run_call"
               /\ UNCHANGED <<stderr, exit>>
          ELSE /\ stderr' = stderr \o Usage(c)
               /\ exit' = <<1>>
               /\ pc' = "exit"
    /\ UNCHANGED <<prev, commands, mutex, adds, args, c, ok, err, topic, w, ret,
                   panicking, stdout, docgo>>

\* Run: the call c.Run(fs.Args()).
RunCall ==
    /\ pc = "Run_call"
    /\ calls' = Append(calls, Call("Run", c, RunArgs(args, fs)))
    /\ pc' = IF c.kind = "help" THEN "help_Run" ELSE "user_Run"
    /\ UNCHANGED <<prev, commands, mutex, adds, args, c, ok, fs, err, topic, w,
                   ret, panicking, stdout, stderr, docgo, exit>>

\* The Run method of a command of the host program: it returns nil or an
\* error.
userRun ==
    /\ pc = "user_Run"
    /\ \E e \in {<<>>, <<Error("user", <<>>)>>} : err' = e
    /\ pc' = "Run_result"
    /\ UNCHANGED <<prev, commands, mutex, adds, args, c, ok, fs, topic, w, ret,
                   panicking, stdout, stderr, docgo, calls, exit>>

\* Run: if err != nil { ...; os.Exit(1) }, or the return.
RunResult ==
    /\ pc = "Run_result"
    /\ IF err # <<>>
       THEN /\ stderr' = stderr \o
                    <<Line("Run.error", c.name, err[1].a, err[1].k)>>
            /\ exit' = ErrorExit
       ELSE /\ exit' = SuccessExit
            /\ UNCHANGED stderr
    /\ pc' = "exit"
    /\ UNCHANGED <<prev, commands, mutex, adds, args, c, ok, fs, err, topic, w,
                   ret, panicking, stdout, docgo, calls>>

\* ---------------------------------------------------------------- help.Run
\* help.Run: the key of commands[arg].
helpKey(arg) == arg

\* help.Run, had it taken any number of arguments.
helpTooManyNever(a) == FALSE

\* help.Run: if len(args) != 1, once len(args) == 0 is excluded.
helpTooMany(a) == Len(a) # 1

\* help.Run, had a registered command named "documentation" come first.
helpDocumentationUnlessRegistered(arg) ==
    arg = strDocumentation /\ arg \notin DOMAIN commands

\* help.Run: if arg == "documentation"
helpDocumentation(arg) == arg = strDocumentation

\* help.Run, from its entry to the choice of what to show.
helpRun ==
    /\ pc = "help_Run"
    /\ LET a == RunArgs(args, fs) IN
       IF Len(a) = 0
       THEN /\ w' = "stdout"
            /\ ret' = "Run_result"
            /\ err' = <<>>
            /\ pc' = "printUsage"
       ELSE IF helpTooMany(a)
       THEN /\ err' = <<Error("help: too many arguments.", <<>>)>>
            /\ pc' = "Run_result"
            /\ UNCHANGED <<w, ret>>
       ELSE IF helpDocumentation(a[1])
       THEN /\ pc' = "help_create"
            /\ UNCHANGED <<w, ret, err>>
       ELSE /\ pc' = "help_lock"
            /\ UNCHANGED <<w, ret, err>>
    /\ UNCHANGED <<prev, commands, mutex, adds, args, c, ok, fs, topic, panicking,
                   stdout, stderr, docgo, calls, exit>>

\* help.Run: f, err := os.Create("doc.go"), which the system may refuse,
\* then the header and the call printUsage(f).
helpCreate ==
    /\ pc = "help_create"
    /\ \E created \in BOOLEAN :
          IF created
          THEN /\ docgo' = [exists |-> TRUE, content |-> <<goHead>>]
               /\ w' = "doc.go"
               /\ ret' = "help_doc_lock"
               /\ pc' = "printUsage"
               /\ UNCHANGED err
          ELSE /\ err' = <<Error("help:: %v", <<>>)>>
               /\ pc' = "Run_result"
               /\ UNCHANGED <<docgo, w, ret>>
    /\ UNCHANGED <<prev, commands, mutex, adds, args, c, ok, fs, topic, panicking,
                   stdout, stderr, calls, exit>>

\* help.Run, 'help documentation': mutex.Lock() and defer mutex.Unlock().
helpDocLock ==
    /\ pc = "help_doc_lock"
    /\ mutex' = TRUE
    /\ pc' = "help_doc_loops"
    /\ UNCHANGED <<prev, commands, adds, args, c, ok, fs, err, topic, w, ret,
                   panicking, stdout, stderr, docgo, calls, exit>>

\* help.Run, 'help documentation', had it not sorted the names.
helpDocLoopsUnsorted(order) ==
    LET cmds == [i \in DOMAIN order |-> commands[order[i]].name]
        r == documentationAll(cmds)
    IN  IF r.panic THEN r
        ELSE [out |-> r.out \o <<goFoot>>, panic |-> FALSE]

\* help.Run, 'help documentation' from var cmds []string to the footer, with
\* the range statement visiting the keys in the given order.
helpDocLoops(order) ==
    LET cmds == SortStrings([i \in DOMAIN order |-> commands[order[i]].name])
        r == documentationAll(cmds)
    IN  IF r.panic THEN r
        ELSE [out |-> r.out \o <<goFoot>>, panic |-> FALSE]

helpDocBody ==
    /\ pc = "help_doc_loops"
    /\ \E order \in RangeOrders(DOMAIN commands) :
          LET r == helpDocLoops(order) IN
          /\ docgo' = [docgo EXCEPT !.content = @ \o r.out]
          /\ panicking' = r.panic
    /\ err' = <<>>
    /\ pc' = "help_doc_return"
    /\ UNCHANGED <<prev, commands, mutex, adds, args, c, ok, fs, topic, w, ret,
                   stdout, stderr, calls, exit>>

\* help.Run, 'help documentation' returns nil, or the panic leaves it: the
\* deferred mutex.Unlock() and f.Close().
helpDocReturn ==
    /\ pc = "help_doc_return"
    /\ mutex' = FALSE
    /\ IF panicking
       THEN /\ stderr' = stderr \o <<Line("panic: runtime error", <<>>, <<>>, "")>>
            /\ exit' = PanicExit
            /\ pc' = "exit"
       ELSE /\ pc' = "Run_result"
            /\ UNCHANGED <<stderr, exit>>
    /\ UNCHANGED <<prev, commands, adds, args, c, ok, fs, err, topic, w, ret,
                   panicking, stdout, docgo, calls>>

\* help.Run, 'help <topic>': mutex.Lock()
helpLock ==
    /\ pc = "help_lock"
    /\ mutex' = TRUE
    /\ pc' = "help_lookup"
    /\ UNCHANGED <<prev, commands, adds, args, c, ok, fs, err, topic, w, ret,
                   panicking, stdout, stderr, docgo, calls, exit>>

\* help.Run, 'help <topic>': c, ok := commands[arg]; mutex.Unlock()
helpLookup ==
    /\ pc = "help_lookup"
    /\ topic' = Index(helpKey(RunArgs(args, fs)[1]))
    /\ mutex' = FALSE
    /\ pc' = "help_topic"
    /\ UNCHANGED <<prev, commands, adds, args, c, ok, fs, err, w, ret, panicking,
                   stdout, stderr, docgo, calls, exit>>

\* help.Run, 'help <topic>': the "unknown help topic" error, or
\* documentation(os.Stdout, c) and return nil.
helpTopic ==
    /\ pc = "help_topic"
    /\ IF ~topic.ok
       THEN /\ err' = <<Error("help: unknown help topic: %s",
                              RunArgs(args, fs)[1])>>
            /\ UNCHANGED stdout
       ELSE /\ stdout' = stdout \o documentation(topic.c)
            /\ err' = <<>>
    /\ pc' = "Run_result"
    /\ UNCHANGED <<prev, commands, mutex, adds, args, c, ok, fs, topic, w, ret,
                   panicking, stderr, docgo, calls, exit>>

\* ------------------------------------------------------------ the next run
\* The process ended in Run and the program is started once more, up to its
\* call of Run: its registration code has registered what it registered
\* before, so the registry is the same and no call of Add is left, and
\* doc.go is as the run left it.  prev keeps what the run ran on and left,
\* and whether it was a 'help documentation' that created doc.go.
Again ==
    /\ pc = "exit"
    /\ calls # <<>>
    /\ prev.runs + 1 < MaxRuns
    /\ prev' = [runs |-> prev.runs + 1,
                doc |-> /\ \E i \in DOMAIN calls :
                              /\ calls[i].fn = "Run"
                              /\ calls[i].cmd = help
                              /\ calls[i].a = <<strDocumentation>>
                        /\ ~(err # <<>> /\ err[1].k = "help:: %v"),
                commands |-> commands,
                docgo |-> docgo]
    /\ pc' = "main"
    /\ mutex' = FALSE
    /\ args' = <<>>
    /\ c' = nil
    /\ ok' = FALSE
    /\ fs' = NoFlagSet
    /\ err' = <<>>
    /\ topic' = [c |-> nil, ok |-> FALSE]
    /\ w' = "stderr"
    /\ ret' = "main"
    /\ panicking' = FALSE
    /\ stdout' = <<>>
    /\ stderr' = <<>>
    /\ calls' = <<>>
    /\ exit' = <<>>
    /\ adds' = MaxAdds
    /\ UNCHANGED <<commands, docgo>>

\* ----------------------------------------------------------- specification
Next ==
    \/ Add
    \/ AddInsert
    \/ Run
    \/ usage
    \/ usageExit
    \/ RunLock
    \/ RunLookup
    \/ RunCheck
    \/ RunRegister
    \/ RunParse
    \/ RunCall
    \/ userRun
    \/ RunResult
    \/ printUsage
    \/ printUsageBody
    \/ printUsageReturn
    \/ helpRun
    \/ helpCreate
    \/ helpDocLock
    \/ helpDocBody
    \/ helpDocReturn
    \/ helpLock
    \/ helpLookup
    \/ helpTopic

Spec == Init /\ [][Next]_vars

\* The program run up to MaxRuns times.
NextAgain == Next \/ Again

SpecAgain == Init /\ [][NextAgain]_vars

\* The types of the state.
TypeOK ==
    /\ mutex \in BOOLEAN
    /\ adds \in 0..MaxAdds
    /\ args \in ArgLists
    /\ ok \in BOOLEAN
    /\ panicking \in BOOLEAN
    /\ w \in {"stdout", "stderr", "doc.go"}
    /\ exit \in {<<>>, <<0>>, <<1>>, <<2>>}
    /\ \A k \in DOMAIN commands : commands[k].kind \in {"help", "user"}

\* ------------------------------------------------------------------ claims
\* The commands in the registry.
Registered == {commands[k] : k \in DOMAIN commands}

\* Run was called, with the argument list a.
Dispatched(a) == calls # <<>> /\ calls[1].fn = "cmdapp.Run" /\ calls[1].a = a

\* The process ended with a status other than 0.
ExitedNonZero == pc = "exit" /\ exit # <<>> /\ exit # <<0>>

\* Some line of out was written by statement k with first operand a.
HasLine(out, k, a) == \E i \in DOMAIN out : out[i].k = k /\ out[i].a = a

\* Run called method fn of some command.
Called(fn) == \E i \in DOMAIN calls : calls[i].fn = fn

\* help.Run was called with the argument list a.
HelpCalled(a) ==
    \E i \in DOMAIN calls :
        calls[i].fn = "Run" /\ calls[i].cmd = help /\ calls[i].a = a

\* C1: a lookup of the name of a registered command returns that command,
\* whatever the letter case of the name: once Run has looked up args[0],
\* and once help.Run has looked up its argument, a registered command of
\* that name is the one found.
C1_LookupFindsRegisteredName ==
    /\ pc = "Run_check" =>
          \A cmd \in Registered :
              cmd.name = args[1] => ok /\ c = cmd
    /\ pc = "help_topic" =>
          \A cmd \in Registered :
              cmd.name = RunArgs(args, fs)[1] => topic.ok /\ topic.c = cmd

\* C2: Add of a command whose lowercase name equals the lowercase name of a
\* registered command panics and leaves the registry as it was.
C2_DuplicateAddPanics ==
    [][(pc = "Add"
        /\ \E cmd \in Registered : ToLower(cmd.name) = ToLower(c.name))
       => (pc' = "exit" /\ exit' = PanicExit /\ commands' = commands
           /\ HasLine(stderr',
                      "panic: cmdapp: Repeated command name: %s %s",
                      ToLower(c.name)))]_vars

\* C2, its case: "Build" was added after "build" and the process panicked,
\* "build" still being the command of that name.
C2_Witness ==
    /\ pc = "exit"
    /\ exit = PanicExit
    /\ c = cmdBuildUpper
    /\ strBuild \in DOMAIN commands
    /\ commands[strBuild] = cmdBuild

\* The command's Run returned an error that is no usage error of help.
RuntimeError ==
    /\ err # <<>>
    /\ err[1].k \in {"user", "help:: %v"}

\* The dispatch ended in a usage error: no arguments, an unknown or
\* non-runnable subcommand, too many help arguments, an unknown help topic.
UsageError ==
    \/ Dispatched(<<>>)
    \/ HasLine(stderr, "Run.unknown", args[1])
    \/ /\ err # <<>>
       /\ err[1].k \in {"help: too many arguments.",
                        "help: unknown help topic: %s"}

\* C3: the exit statuses fall in three classes: 0 when the command's Run
\* returned no error, the runtime-error status (1) when it returned an
\* error, and for a usage error a non-zero status other than the
\* runtime-error status.
C3_ThreeExitClasses ==
    (pc = "exit" /\ calls # <<>> /\ ~panicking) =>
        /\ (Called("Run") /\ err = <<>>) => exit = <<0>>
        /\ RuntimeError => exit = <<1>>
        /\ UsageError => exit \notin {<<0>>, <<1>>}

\* C4: Run with no arguments writes the whole usage listing to standard
\* error and nothing to standard output, calls no command, and exits with
\* the usage-error status (that of usage, not 0), whatever is registered.
C4_EmptyArgsUsage ==
    (pc = "exit" /\ Dispatched(<<>>)) =>
        /\ stdout = <<>>
        /\ Len(calls) = 1
        /\ exit = UsageExit
        /\ exit # <<0>>
        /\ stderr # <<>>
        /\ stderr[1].k = "printUsage.short"
        /\ stderr[Len(stderr)].k \in
               {"printUsage.commandHint", "printUsage.topicHint"}

\* The first argument is no registered name (names are compared as the
\* registry compares them, in lowercase), or it is the name of a registered
\* command that is not runnable.
UnknownSubcommand ==
    /\ calls # <<>>
    /\ args # <<>>
    /\ \/ \A cmd \in Registered : ToLower(cmd.name) # ToLower(args[1])
       \/ \E cmd \in Registered : cmd.name = args[1] /\ ~cmd.runnable

\* C5: Run with a first argument that is no registered name, or that names
\* a registered command that is not runnable, never calls Register or Run
\* of a command and ends with an "unknown subcommand" diagnostic naming the
\* argument on standard error and a status other than 0.
C5_UnknownSubcommand ==
    UnknownSubcommand =>
        /\ ~Called("Register")
        /\ ~Called("Run")
        /\ pc = "exit" =>
              /\ HasLine(stderr, "Run.unknown", args[1])
              /\ stdout = <<>>
              /\ ExitedNonZero

\* C5, its case: the topic "workflow" is registered and was dispatched.
C5_Witness ==
    /\ pc = "exit"
    /\ cmdWorkflow \in Registered
    /\ args # <<>>
    /\ args[1] = strWorkflow
    /\ HasLine(stderr, "Run.unknown", strWorkflow)

\* Run found a registered runnable command under its first argument.
Resolved ==
    /\ calls # <<>>
    /\ args # <<>>
    /\ args[1] \in DOMAIN commands
    /\ commands[args[1]].runnable

DetailedHelp(out, cmd) ==
    /\ out # <<>>
    /\ out[1] = Line("documentation.short", capitalize(cmd.short), <<>>, "")
    /\ out[Len(out)] = Line("documentation.long", TrimSpace(cmd.long), <<>>, "")
    /\ cmd.runnable =>
          /\ Len(out) = 3
          /\ out[2] = Line("documentation.usage", cmd.name, cmd.args, "")
    /\ ~cmd.runnable => Len(out) = 2

\* C7: for every registered command or topic, 'help <its name>' succeeds
\* and writes the detailed help of that command and nothing else to
\* standard output.  (The name "documentation", which help reserves, is
\* left out.)
C7_HelpShowsCommand ==
    pc = "exit" =>
        \A cmd \in Registered :
            (HelpCalled(<<cmd.name>>) /\ cmd.name # strDocumentation) =>
                /\ exit = <<0>>
                /\ stderr = <<>>
                /\ DetailedHelp(stdout, cmd)

\* No registered command has the name x (names compared in lowercase).
UnknownName(x) == \A cmd \in Registered : ToLower(cmd.name) # ToLower(x)

\* help.Run was called with more than one argument, or with one argument
\* that is neither a known name nor "documentation".
HelpArgsRejected ==
    \E i \in DOMAIN calls :
        /\ calls[i].fn = "Run"
        /\ calls[i].cmd = help
        /\ \/ Len(calls[i].a) > 1
           \/ /\ Len(calls[i].a) = 1
              /\ calls[i].a[1] # strDocumentation
              /\ UnknownName(calls[i].a[1])

\* C8: help with more than one argument ends with "too many arguments",
\* and help with one argument that is neither a known name nor
\* "documentation" ends with "unknown help topic" naming it; in both cases
\* the status is not 0, nothing is written to standard output and doc.go
\* is neither created nor truncated.
C8_HelpRejects ==
    HelpArgsRejected =>
        /\ stdout = <<>>
        /\ docgo \in {NoFile, StaleFile}
        /\ pc = "exit" =>
              /\ ExitedNonZero
              /\ Len(stderr) = 1
              /\ stderr[1].k = "Run.error"
              /\ stderr[1].a = strHelp
              /\ LET a == RunArgs(args, fs) IN
                 IF Len(a) > 1
                 THEN stderr[1].e = "help: too many arguments."
                 ELSE /\ stderr[1].e = "help: unknown help topic: %s"
                      /\ stderr[1].b = a[1]

\* C8, its case: 'help documentation build', with build registered, ended
\* with the "too many arguments" error.
C8_Witness ==
    /\ pc = "exit"
    /\ args = <<strHelp, strDocumentation, strBuild>>
    /\ cmdBuild \in Registered
    /\ HelpCalled(<<strDocumentation, strBuild>>)
    /\ err = <<Error("help: too many arguments.", <<>>)>>

\* Where the topics section of a usage listing starts: past the end when
\* there is none.
TopicsAt(out) ==
    IF \E i \in DOMAIN out : out[i].k = "printUsage.topics"
    THEN CHOOSE i \in DOMAIN out : out[i].k = "printUsage.topics"
    ELSE Len(out) + 1

\* How often cmd is listed among the lines of out with an index in range.
Listed(out, cmd, range) ==
    Cardinality({i \in DOMAIN out \cap range :
                    out[i] = Line("printUsage.entry", cmd.name, cmd.short, "")})

\* out is a usage listing of the registry: every command once, the
\* runnable ones in the commands section, the others in the topics section,
\* which is there if and only if some command is not runnable.
UsageListing(out) ==
    /\ \A cmd \in Registered :
          /\ Listed(out, cmd, 1..(TopicsAt(out) - 1))
                = IF cmd.runnable THEN 1 ELSE 0
          /\ Listed(out, cmd, (TopicsAt(out) + 1)..Len(out))
                = IF cmd.runnable THEN 0 ELSE 1
    /\ (TopicsAt(out) <= Len(out)) <=> (\E cmd \in Registered : ~cmd.runnable)

\* C9: the usage listing, written by 'help' without arguments and by the
\* usage error of a dispatch without arguments, lists every registered
\* command exactly once, in the section its Runnable() asks for, whatever
\* the letter case of the registered names.
C9_UsageListsAll ==
    pc = "exit" =>
        /\ Dispatched(<<>>) => UsageListing(stderr)
        /\ HelpCalled(<<>>) => UsageListing(stdout)

\* The lines of out that documentation wrote.
DocumentationLines(out) ==
    SelectSeq(out, LAMBDA l : l.k \in {"documentation.short",
                                       "documentation.usage",
                                       "documentation.long"})

\* The detailed help of the commands named by names, in that order.
RECURSIVE HelpOfNames(_)
HelpOfNames(names) ==
    IF names = <<>> THEN <<>>
    ELSE LET cmd == CHOOSE x \in Registered : x.name = Head(names)
         IN  documentation(cmd) \o HelpOfNames(Tail(names))

\* The names of the registered commands, sorted.
SortedNames ==
    LET order == CHOOSE o \in RangeOrders(DOMAIN commands) : TRUE
    IN  SortStrings([i \in DOMAIN order |-> commands[order[i]].name])

\* C10: 'help documentation', when doc.go can be created, ends without
\* error for every registry, and doc.go then holds the header, the usage
\* listing, the detailed help of every registered command once, in the
\* order of the sorted names, and the footer.
C10_DocumentationFile ==
    (/\ pc = "exit"
     /\ HelpCalled(<<strDocumentation>>)
     /\ ~(err # <<>> /\ err[1].k = "help:: %v")) =>
        /\ exit = <<0>>
        /\ docgo.exists
        /\ Len(docgo.content) >= 2
        /\ docgo.content[1] = goHead
        /\ docgo.content[Len(docgo.content)] = goFoot
        /\ UsageListing(docgo.content)
        /\ DocumentationLines(docgo.content) = HelpOfNames(SortedNames)
        /\ \A i, j \in DOMAIN docgo.content :
              (/\ docgo.content[i].k \in {"printUsage.commandHint",
                                          "printUsage.topicHint"}
               /\ docgo.content[j].k = "documentation.short") => i < j

\* This run was a 'help documentation' for which doc.go was created.
DocumentationRun ==
    /\ HelpCalled(<<strDocumentation>>)
    /\ ~(err # <<>> /\ err[1].k = "help:: %v")

\* C11: 'help documentation' is idempotent: when two runs in a row are
\* 'help documentation' on the same registry (no Add in between) and both
\* create doc.go, the second leaves doc.go exactly as the first left it,
\* whatever the order in which the range statements visit the map.
C11_DocumentationIdempotent ==
    (/\ pc = "exit"
     /\ prev.runs > 0
     /\ prev.doc
     /\ prev.commands = commands
     /\ DocumentationRun) => docgo = prev.docgo

\* C11, its case: two complete runs of 'help documentation' in a row on a
\* registry of three commands.
C11_Witness ==
    /\ pc = "exit"
    /\ exit = <<0>>
    /\ prev.runs > 0
    /\ prev.doc
    /\ prev.commands = commands
    /\ DocumentationRun
    /\ Cardinality(DOMAIN commands) >= 3
    /\ docgo.content[Len(docgo.content)] = goFoot

\* The key of every entry of the registry is the lowercase form of the name
\* of its command.
KeysLowercase == \A k \in DOMAIN commands : k = ToLower(commands[k].name)

\* No two entries of the registry hold commands whose names are equal once
\* in lowercase.
NamesUnique ==
    \A j, k \in DOMAIN commands :
        ToLower(commands[j].name) = ToLower(commands[k].name) => j = k

\* The name of every command of the registry is non-empty.
NamesNonEmpty == \A k \in DOMAIN commands : commands[k].name # <<>>

\* C12: after any sequence of Add calls every entry of the registry has a
\* non-empty name, is stored under the lowercase form of that name, and
\* shares its lowercase name with no other entry.
C12_RegistryInvariant == NamesNonEmpty /\ KeysLowercase /\ NamesUnique

\* The calls of Run of the package, and the calls of the Run method of a
\* command.
Dispatches == {i \in DOMAIN calls : calls[i].fn = "cmdapp.Run"}
RunCallbacks == {i \in DOMAIN calls : calls[i].fn = "Run"}

\* The Run method of a command of the host program was called.
UserRunCalled ==
    \E i \in DOMAIN calls : calls[i].fn = "Run" /\ calls[i].cmd # help

\* The dispatch is a usage error: no arguments, an unknown subcommand, an
\* unknown help topic or too many help arguments.
UsageErrorCase == UsageError \/ UnknownSubcommand \/ HelpArgsRejected

\* The parse of args[1:] was made and failed.
ParseFailed == fs.parsed /\ ~FlagParse(fs.flags, Tail(args)).ok

\* What C13 says of every dispatch, but for the number of Run methods
\* called when the resolution succeeds: one call of Run of the package, at
\* most one Run method, and on a usage error no Run method of a command of
\* the host program and doc.go as it was when the process started.
OneDispatch ==
    /\ Cardinality(Dispatches) <= 1
    /\ Cardinality(RunCallbacks) <= 1
    /\ UsageErrorCase => ~UserRunCalled /\ docgo = prev.docgo

\* C13, as stated: every dispatch calls the Run method of at most one
\* command, and of exactly one when the resolution succeeds; it never
\* dispatches a second time; on a usage error it calls no Run method of a
\* command of the host program and leaves doc.go alone.
C13_OneDispatchAsStated ==
    /\ OneDispatch
    /\ (pc = "exit" /\ Resolved) => Cardinality(RunCallbacks) = 1

\* C13, amended: every dispatch calls the Run method of at most one
\* command, and of exactly one when the resolution succeeds and the parse
\* of args[1:] does not fail; it never dispatches a second time; on a usage
\* error it calls no Run method of a command of the host program and leaves
\* doc.go alone.
C13_OneDispatch ==
    /\ OneDispatch
    /\ (pc = "exit" /\ Resolved /\ ~ParseFailed) =>
           Cardinality(RunCallbacks) = 1
    /\ (pc = "exit" /\ Resolved /\ ParseFailed) => RunCallbacks = {}

\* C13, its case: the dispatch of a registered runnable command with a flag
\* ended, after one call of its Run method.
C13_Witness ==
    /\ pc = "exit"
    /\ Resolved
    /\ ~ParseFailed
    /\ args = <<strBuild, strFlagV>>
    /\ c = cmdBuild
    /\ Cardinality(Dispatches) = 1
    /\ Cardinality(RunCallbacks) = 1
    /\ UserRunCalled

\* No Register or Run method of a command was called with the mutex held.
CallbacksUnlocked == \A i \in DOMAIN calls : ~calls[i].held

\* The positions of help.Run and printUsage at which Name, Short, Long, Args
\* and Runnable of the commands are called and the writer is written to.
HelpCallbackPositions == {"printUsage_loops", "help_doc_loops", "help_topic"}

\* The process never ends with the mutex held: Add released it when it
\* panicked.
ReleasedAtExit == pc = "exit" => ~mutex

\* C14: the mutex is held only for one insert or one lookup: it is free when
\* Run calls Register or Run of a command, free while help.Run and
\* printUsage call the methods of the commands and write the listing or
\* doc.go, and free after Add panicked.
C14_MutexOnlyForLookup ==
    /\ CallbacksUnlocked
    /\ pc \in HelpCallbackPositions => ~mutex
    /\ ReleasedAtExit

\* C15: the built-in commands come first, whatever was added: when the
\* first argument is "help", the command whose Register and Run are called
\* is the built-in help and never a command of the host program, and it is
\* run whenever the parse does not fail; 'help documentation' writes
\* nothing to standard output, never looks "documentation" up as a topic,
\* and leaves doc.go starting with the header whenever it could create it.
C15_BuiltinsFirst ==
    /\ (args # <<>> /\ args[1] = strHelp) =>
          /\ \A i \in DOMAIN calls :
                calls[i].fn \in {"Register", "Run"} => calls[i].cmd = help
          /\ (pc = "exit" /\ ~ParseFailed) =>
                \E i \in DOMAIN calls :
                    calls[i].fn = "Run" /\ calls[i].cmd = help
    /\ HelpCalled(<<strDocumentation>>) =>
          /\ stdout = <<>>
          /\ pc \notin {"help_lock", "help_lookup", "help_topic"}
          /\ (pc = "exit" /\ DocumentationRun) =>
                docgo.exists /\ docgo.content[1] = goHead

\* C15, its case: 'help documentation' ended without error in a program
\* that registered a command named "documentation".
C15_Witness ==
    /\ pc = "exit"
    /\ exit = <<0>>
    /\ cmdDocumentation \in Registered
    /\ args = <<strHelp, strDocumentation>>
    /\ DocumentationRun
    /\ docgo.exists
    /\ docgo.content[1] = goHead
    /\ stdout = <<>>

=============================================================================
